---- MODULE Spec2Model ----
(***************************************************************************)
(* Topolang: untyped lambda calculus (ULC) to Set Lambda Calculus (SLC).   *)
(*                                                                         *)
(* The module models five parts of src/unnamed/part_000:                   *)
(*   - SLC_set, a std::set of variant<string_view, shared_ptr<SLC_set>,    *)
(*     int>, and its to_string();                                          *)
(*   - ULC_converter: convert_dbj(), convert() and make_number();          *)
(*   - toposet_parser::parse_toposet(), one step per character read;       *)
(*   - ULC_lexer::next_token(), one step per call;                         *)
(*   - ULC_parser, as the constructor ULC_converter(text) runs it, alone   *)
(*     and followed by the two conversions as display() does.              *)
(*                                                                         *)
(* A shared_ptr compares by the address it holds, so every nested set      *)
(* carries the address make_shared gave it.  Which address an allocation   *)
(* gets is the allocator's business: the variable heap names the           *)
(* allocator's policy and is chosen freely in every initial state.         *)
(***************************************************************************)
EXTENDS Integers, Sequences, FiniteSets, Bags, TLC

VARIABLES
    heap,      \* the allocator: its policy and the allocations made so far
    root_,     \* ULC_converter::root_, the AST handed to the converter
    dbj,       \* outcome of convert_dbj()
    slc,       \* outcome of convert()
    sets,      \* the SLC_set objects of the set-construction driver
    last,      \* the driver's last elements.insert / make_number call
    str_,      \* toposet_parser::str_ (a sequence of characters)
    pos,       \* number of characters of str_ the for loop has read
    stk,       \* parse_toposet's stack of in-progress sets, top last
    parsed,    \* outcome of parse_toposet()
    text_,     \* ULC_lexer::text_, the source text (a sequence of characters)
    lexer_,    \* a ULC_lexer on text_ and the tokens it has returned so far
    parser_    \* the ULC_parser a ULC_converter built from text_, when it is done

vars == <<heap, root_, dbj, slc, sets, last, str_, pos, stk, parsed,
          text_, lexer_, parser_>>

(***************************************************************************)
(* Bounds of the model.                                                    *)
(***************************************************************************)
MaxNodes == 5      \* AST nodes of a converter input
MaxNumber == 3     \* largest argument handed to make_number directly
MaxInserts == 4    \* calls of the set-construction driver
MaxLen == 8        \* characters of a toposet_parser input

Names == {"x", "y"}
Symbols == {"lambda", "promote"}
Chars == {"{", "}", ","}
Policies == {"up", "down", "split"}

(***************************************************************************)
(* SLC_element and SLC_set.                                                *)
(***************************************************************************)
\* An SLC_element holding a std::string_view (variant index 0).  A symbol is
\* kept by name; SymText is the text the string_view views.
Sym(t) == [k |-> "sym", sym |-> t, a |-> 0, s |-> <<>>, n |-> 0]

\* An SLC_element holding a std::shared_ptr<SLC_set> (variant index 1):
\* the address it points to and the set stored there.
Ptr(addr, set) == [k |-> "ptr", sym |-> "", a |-> addr, s |-> set, n |-> 0]

\* An SLC_element holding an int (variant index 2).
Num(i) == [k |-> "int", sym |-> "", a |-> 0, s |-> <<>>, n |-> i]

\* std::variant::index().
Index(e) == CASE e.k = "sym" -> 0 [] e.k = "ptr" -> 1 [] e.k = "int" -> 2

\* The text of a symbol: the lambda marker and the promote marker.
SymText(t) == CASE t = "lambda" -> "λ" [] t = "promote" -> "⊕"

\* Byte order of the symbols' texts: "λ" is CE BB, "⊕" is E2 8A 95.
SymRank(t) == CASE t = "lambda" -> 0 [] t = "promote" -> 1

\* A faulty operator<: nested sets compared by what they hold, not by where
\* they live.
ElementLessByValue(e1, e2) ==
    IF Index(e1) # Index(e2) THEN Index(e1) < Index(e2)
    ELSE CASE e1.k = "sym" -> SymRank(e1.sym) < SymRank(e2.sym)
           [] e1.k = "ptr" -> Len(e1.s) < Len(e2.s)
           [] e1.k = "int" -> e1.n < e2.n

\* operator< of std::variant: by index, then by the held value; two
\* shared_ptr compare by address.
ElementLess(e1, e2) ==
    IF Index(e1) # Index(e2) THEN Index(e1) < Index(e2)
    ELSE CASE e1.k = "sym" -> SymRank(e1.sym) < SymRank(e2.sym)
           [] e1.k = "ptr" -> e1.a < e2.a
           [] e1.k = "int" -> e1.n < e2.n

\* A faulty insert: equivalent keys are kept, as a std::multiset would.
InsertMulti(S, e) ==
    LET below == Cardinality({i \in 1..Len(S) : ~ElementLess(e, S[i])})
    IN  SubSeq(S, 1, below) \o <<e>> \o SubSeq(S, below + 1, Len(S))

\* std::set::insert: nothing happens when an equivalent key is present;
\* otherwise the element takes its place in the order.  An SLC_set is the
\* sequence of its elements in iteration order.
Insert(S, e) ==
    IF \E i \in 1..Len(S) : ~ElementLess(S[i], e) /\ ~ElementLess(e, S[i])
    THEN S
    ELSE LET below == Cardinality({i \in 1..Len(S) : ElementLess(S[i], e)})
         IN  SubSeq(S, 1, below) \o <<e>> \o SubSeq(S, below + 1, Len(S))

\* The address std::make_shared returns from allocator al: the place its
\* policy gives the next allocation.  Nothing is freed while a term is
\* built, so every policy is injective.
make_shared(al) ==
    LET n == al.n + 1
    IN  CASE al.policy = "up" -> n
          [] al.policy = "down" -> 0 - n
          [] al.policy = "split" -> IF n % 2 = 1 THEN n ELSE 0 - n

\* The allocator after one more allocation.
Allocated(al) == [al EXCEPT !.n = @ + 1]

\* SLC_set::to_string: "{", the elements in iteration order separated by
\* ", ", "}".
RECURSIVE to_string(_)
RECURSIVE elements_to_string(_, _)
elements_to_string(S, i) ==
    IF i > Len(S) THEN ""
    ELSE (IF i # 1 THEN ", " ELSE "")
         \o (CASE S[i].k = "sym" -> SymText(S[i].sym)
               [] S[i].k = "int" -> ToString(S[i].n)
               [] S[i].k = "ptr" -> to_string(S[i].s))
         \o elements_to_string(S, i + 1)

to_string(S) == "{" \o elements_to_string(S, 1) \o "}"

(***************************************************************************)
(* A term up to the order of siblings: the bag of its elements, nested     *)
(* sets by their own bags.  Addresses play no part.                        *)
(***************************************************************************)
RECURSIVE Shape(_)
ShapeOf(e) == [k |-> e.k, sym |-> e.sym, n |-> e.n, sub |-> Shape(e.s)]

Shape(S) ==
    IF S = <<>> THEN EmptyBag
    ELSE SetToBag({ShapeOf(Head(S))}) (+) Shape(Tail(S))

(***************************************************************************)
(* ULC_AST_node.                                                           *)
(***************************************************************************)
Null == [type |-> "NULL"]

Atomic(v) == [type |-> "ATOMIC", right |-> Null, left |-> Null, value |-> v]

\* parse_abstraction: the bound variable is the right child, the body the left.
Definition(v, body) ==
    [type |-> "DEFINITION", right |-> Atomic(v), left |-> body, value |-> ""]

\* parse_expression: the head is the left child, the argument the right.
Application(f, arg) ==
    [type |-> "APPLICATION", right |-> arg, left |-> f, value |-> ""]

\* parse_atomic: the parenthesized expression is the right child.
Group(inner) == [type |-> "GROUP", right |-> inner, left |-> Null, value |-> ""]

\* The trees of exactly k nodes the parser can build: a Definition's body is
\* any expression, an Application's argument is what parse_atomic returns (a
\* variable or a Group), its head is such an atomic or an Application, and a
\* Group holds any expression or, for "()", nothing.
RECURSIVE Trees(_)
Trees(k) ==
    IF k < 1 THEN {}
    ELSE (IF k = 1 THEN {Atomic(v) : v \in Names} \cup {Group(Null)} ELSE {})
         \cup {Definition(v, b) : v \in Names, b \in Trees(k - 1)}
         \cup {Group(e) : e \in Trees(k - 1)}
         \cup UNION {{Application(f, arg) :
                        f \in {t \in Trees(i) : t.type # "DEFINITION"},
                        arg \in {t \in Trees(k - 1 - i) :
                                    t.type \in {"ATOMIC", "GROUP"}}} :
                     i \in 1..(k - 2)}

Inputs == {Null} \cup UNION {Trees(k) : k \in 1..MaxNodes}

(***************************************************************************)
(* ULC_converter.  A conversion returns a set or throws; either way it     *)
(* leaves the allocator al behind.                                         *)
(***************************************************************************)
Returned(set, al) == [st |-> "returned", what |-> "", set |-> set, al |-> al]
Thrown(what, al) == [st |-> "thrown", what |-> what, set |-> <<>>, al |-> al]

\* A faulty capture: the binder is appended, so the outermost is found first.
CaptureAtEnd(captured, name) == captured \o <<name>>

\* captured.insert(captured.begin(), name).
Capture(captured, name) == <<name>> \o captured

\* A faulty std::find resolves a name nobody binds to the innermost binder.
FindOrInnermost(captured, var_name) ==
    IF \E i \in 1..Len(captured) : captured[i] = var_name
    THEN (CHOOSE i \in 1..Len(captured) :
              /\ captured[i] = var_name
              /\ \A j \in 1..(i - 1) : captured[j] # var_name) - 1
    ELSE 0

\* std::find(captured.begin(), captured.end(), var_name), as the distance of
\* the iterator from begin(); Len(captured) stands for end().
Find(captured, var_name) ==
    IF \E i \in 1..Len(captured) : captured[i] = var_name
    THEN (CHOOSE i \in 1..Len(captured) :
             /\ captured[i] = var_name
             /\ \A j \in 1..(i - 1) : captured[j] # var_name) - 1
    ELSE Len(captured)

\* int position = std::distance(captured.begin(), it) + 1.
Position(captured, var_name) == Find(captured, var_name) + 1

\* A faulty insert: the allocation copies a set already moved from, so the
\* nested set is empty.
InsertSharedEmptied(ret, set, al) ==
    [set |-> Insert(ret, Ptr(make_shared(al), <<>>)), al |-> Allocated(al)]

\* ret.elements.insert(std::make_shared<SLC_set>(std::move(set))): the pair
\* of the new ret and the allocator.
InsertShared(ret, set, al) ==
    [set |-> Insert(ret, Ptr(make_shared(al), set)), al |-> Allocated(al)]

\* A faulty application puts the function's encoding next to the argument's,
\* unwrapped.
PromoteBare(promote_set, al) == [set |-> promote_set, al |-> al]

\* ret_set.elements.insert(std::make_shared<SLC_set>(std::move(promote_set)))
\* on the empty ret_set of an Application.
Promote(promote_set, al) == InsertShared(<<>>, promote_set, al)

\* The for loop of make_number: one more empty set per round.
RECURSIVE make_number_extra(_, _, _, _)
RECURSIVE make_number_more(_, _, _)
make_number_extra(num_top, i, number, al) ==
    IF i < number
    THEN make_number_more(InsertShared(num_top, <<>>, al), i, number)
    ELSE Returned(num_top, al)

make_number_more(r, i, number) == make_number_extra(r.set, i + 1, number, r.al)

\* make_number, step by step: num_base_r, num_base_l and num_base are put
\* in, each with the set and the allocator the step before left behind.
make_number_loop(top, number) == make_number_extra(top.set, 1, number, top.al)
make_number_top(b2, number) ==
    make_number_loop(InsertShared(<<>>, b2.set, b2.al), number)
make_number_left(b1, number) ==
    make_number_top(InsertShared(b1.set, <<>>, b1.al), number)

make_number(number, al) == make_number_left(InsertShared(<<>>, <<>>, al), number)

\* What an insert of a nested set returns, as an outcome.
Inserted(r) == Returned(r.set, r.al)

\* ret.elements.insert(std::make_shared<SLC_set>(std::move(sub_set))), when
\* computing sub_set did not throw.
InsertSub(ret, sub_set) ==
    IF sub_set.st = "thrown" THEN sub_set
    ELSE Inserted(InsertShared(ret, sub_set.set, sub_set.al))

\* The operand of a Definition or an Application in De Bruijn mode, put into
\* ret: a bare variable as its position, anything else as a nested set.
RECURSIVE convert_subset_dbj(_, _, _, _)
OperandDbj(ret, operand, lambda_depth, captured, al) ==
    IF operand.type = "ATOMIC"
    THEN IF Find(captured, operand.value) = Len(captured)
         THEN Thrown("Unknown variable", al)
         ELSE Returned(Insert(ret, Num(Position(captured, operand.value))), al)
    ELSE InsertSub(ret, convert_subset_dbj(operand, lambda_depth, captured, al))

\* An Application once promote_set is built: promote_set goes into ret_set,
\* then the argument.
ArgumentDbj(r, node, lambda_depth, captured) ==
    OperandDbj(r.set, node.right, lambda_depth, captured, r.al)

ApplyDbj(promote_set, node, lambda_depth, captured) ==
    IF promote_set.st = "thrown" THEN promote_set
    ELSE ArgumentDbj(Promote(promote_set.set, promote_set.al),
                     node, lambda_depth, captured)

convert_subset_dbj(node, lambda_depth, captured, al) ==
    IF node = Null THEN Returned(<<>>, al)
    ELSE CASE node.type = "DEFINITION" ->
                OperandDbj(Insert(<<>>, Sym("lambda")), node.left, lambda_depth + 1,
                           Capture(captured, node.right.value), al)
           [] node.type = "APPLICATION" ->
                ApplyDbj(OperandDbj(<<>>, node.left, lambda_depth, captured, al),
                         node, lambda_depth, captured)
           [] node.type = "GROUP" ->
                convert_subset_dbj(node.right, lambda_depth, captured, al)
           [] OTHER -> Returned(<<>>, al)

\* The same operand in name-preserving mode: a bare variable as the nested
\* set make_number builds for its position.
RECURSIVE convert_subset(_, _, _, _)
Operand(ret, operand, lambda_depth, captured, al) ==
    IF operand.type = "ATOMIC"
    THEN IF Find(captured, operand.value) = Len(captured)
         THEN Thrown("Unknown variable", al)
         ELSE InsertSub(ret, make_number(Position(captured, operand.value), al))
    ELSE InsertSub(ret, convert_subset(operand, lambda_depth, captured, al))

Argument(r, node, lambda_depth, captured) ==
    Operand(r.set, node.right, lambda_depth, captured, r.al)

Apply(promote_set, node, lambda_depth, captured) ==
    IF promote_set.st = "thrown" THEN promote_set
    ELSE Argument(Promote(promote_set.set, promote_set.al),
                  node, lambda_depth, captured)

\* A Definition once lambda_top is in ret_set: the body goes in after it.
Body(r, node, lambda_depth, captured) ==
    Operand(r.set, node.left, lambda_depth + 1,
            Capture(captured, node.right.value), r.al)

LambdaTop(lambda_top) == InsertShared(<<>>, lambda_top.set, lambda_top.al)

convert_subset(node, lambda_depth, captured, al) ==
    IF node = Null THEN Returned(<<>>, al)
    ELSE CASE node.type = "DEFINITION" ->
                Body(LambdaTop(InsertShared(<<>>, <<>>, al)),
                     node, lambda_depth, captured)
           [] node.type = "APPLICATION" ->
                Apply(Operand(<<>>, node.left, lambda_depth, captured, al),
                      node, lambda_depth, captured)
           [] node.type = "GROUP" ->
                convert_subset(node.right, lambda_depth, captured, al)
           [] OTHER -> Thrown("Huh??", al)

\* SLC_set convert_dbj() and SLC_set convert(): from the root, nothing captured.
convert_dbj(root, al) == convert_subset_dbj(root, 0, <<>>, al)
convert(root, al) == convert_subset(root, 0, <<>>, al)

(***************************************************************************)
(* The converter as display() drives it: one ULC_converter, on which       *)
(* convert_dbj() and convert() are each called once.                       *)
(***************************************************************************)
NotCalled == [st |-> "none", what |-> "", set |-> <<>>]
Outcome(r) == [st |-> r.st, what |-> r.what, set |-> r.set]

\* What the variables of the other drivers hold while one driver runs.
IdleConverter == root_ = Null /\ dbj = NotCalled /\ slc = NotCalled
IdleSets == sets = <<>> /\ last = [op |-> "none", count |-> 0]
IdleParser == str_ = <<>> /\ pos = 0 /\ stk = <<>> /\ parsed = NotCalled

\* A ULC_lexer before its first call, and the ULC_parser of a converter: not
\* built yet, or never built because the converter was handed an AST.
NewLexer == [pos_ |-> 0, out |-> <<>>, thrown |-> ""]
NoParser == [st |-> "none", what |-> "", tokens_ |-> <<>>, starts |-> <<>>,
             token_id_ |-> 0, pos_ |-> 0, lexed |-> 0, log |-> <<>>]
FromAST == [NoParser EXCEPT !.st = "given"]
IdleFront == text_ = <<>> /\ lexer_ = NewLexer /\ parser_ = NoParser

\* convert_dbj() and convert() are member functions: they run on a converter
\* whose constructor has returned.
Constructed == parser_.st \in {"given", "parsed"}

Init ==
    /\ heap \in [policy : Policies, n : {0}]
    /\ root_ \in Inputs
    /\ dbj = NotCalled
    /\ slc = NotCalled
    /\ IdleSets
    /\ IdleParser
    /\ text_ = <<>> /\ lexer_ = NewLexer /\ parser_ = FromAST

ConvertDbj ==
    /\ Constructed
    /\ dbj.st = "none"
    /\ LET r == convert_dbj(root_, heap)
       IN  dbj' = Outcome(r) /\ heap' = r.al
    /\ UNCHANGED <<root_, slc, sets, last, str_, text_, lexer_, parser_, pos, stk, parsed>>

Convert ==
    /\ Constructed
    /\ slc.st = "none"
    /\ LET r == convert(root_, heap)
       IN  slc' = Outcome(r) /\ heap' = r.al
    /\ UNCHANGED <<root_, dbj, sets, last, str_, text_, lexer_, parser_, pos, stk, parsed>>

Next == ConvertDbj \/ Convert

Spec == Init /\ [][Next]_vars

(***************************************************************************)
(* The variable occurrences of an AST, read off the tree alone: where each *)
(* one sits, what encloses it and which binders it is in the scope of,     *)
(* outermost first.                                                        *)
(***************************************************************************)
RECURSIVE Occurrences(_, _, _, _, _)
Occurrences(node, path, binders, under, depth) ==
    IF node = Null THEN {}
    ELSE CASE node.type = "ATOMIC" ->
                {[path |-> path, name |-> node.value, binders |-> binders,
                  under |-> under, depth |-> depth]}
           [] node.type = "DEFINITION" ->
                Occurrences(node.left, Append(path, "left"),
                            Append(binders, node.right.value), "DEFINITION",
                            IF node.left.type = "ATOMIC" THEN depth ELSE depth + 1)
           [] node.type = "APPLICATION" ->
                Occurrences(node.left, Append(path, "left"), binders, "APPLICATION",
                            IF node.left.type = "ATOMIC" THEN depth + 1 ELSE depth + 2)
                \cup
                Occurrences(node.right, Append(path, "right"), binders, "APPLICATION",
                            IF node.right.type = "ATOMIC" THEN depth ELSE depth + 1)
           [] node.type = "GROUP" ->
                Occurrences(node.right, Append(path, "right"), binders, "GROUP", depth)

OccurrencesOf(root) == Occurrences(root, <<>>, <<>>, "ROOT", 0)

\* An occurrence is bound when some enclosing Definition binds its name.
IsBound(o) == \E j \in 1..Len(o.binders) : o.binders[j] = o.name

\* 1 + the number of binders strictly inside the nearest one of the same name.
Distance(o) ==
    LET nearest == CHOOSE j \in 1..Len(o.binders) :
                       /\ o.binders[j] = o.name
                       /\ \A i \in (j + 1)..Len(o.binders) : o.binders[i] # o.name
    IN  1 + (Len(o.binders) - nearest)

\* The occurrences that are a Definition's body or an Application's operand.
Operands(root) ==
    {o \in OccurrencesOf(root) : o.under \in {"DEFINITION", "APPLICATION"}}

AllBound(root) == \A o \in OccurrencesOf(root) : IsBound(o)
HasUnbound(root) == \E o \in OccurrencesOf(root) : ~IsBound(o)

\* The integers of a term, each with the number of sets around it.
RECURSIVE IntLeaves(_, _)
IntLeaves(S, depth) ==
    IF S = <<>> THEN EmptyBag
    ELSE (CASE Head(S).k = "int" -> SetToBag({[depth |-> depth, n |-> Head(S).n]})
            [] Head(S).k = "ptr" -> IntLeaves(Head(S).s, depth + 1)
            [] OTHER -> EmptyBag)
         (+) IntLeaves(Tail(S), depth)

\* The distances of the operand occurrences, each with the number of sets the
\* encoding puts around that operand.
ExpectedLeaves(root) ==
    LET leaves == {[depth |-> o.depth, n |-> Distance(o)] : o \in Operands(root)}
    IN  [l \in leaves |->
            Cardinality({o \in Operands(root) :
                            o.depth = l.depth /\ Distance(o) = l.n})]

\* C1: in De Bruijn mode, when every variable is bound, the conversion
\* returns, and the integers of the term are exactly the binder distances of
\* the variables that are a Definition's body or an Application's operand,
\* each where the encoding puts that operand; \x.x renders {λ, 1} and
\* \x.\y.x renders {λ, {λ, 2}}.
C1_DeBruijnDistance ==
    (dbj.st # "none" /\ AllBound(root_)) =>
        /\ dbj.st = "returned"
        /\ IntLeaves(dbj.set, 0) = ExpectedLeaves(root_)
        /\ root_ = Definition("x", Atomic("x")) => to_string(dbj.set) = "{λ, 1}"
        /\ root_ = Definition("x", Definition("y", Atomic("x")))
              => to_string(dbj.set) = "{λ, {λ, 2}}"

\* C1 witness: a converted term with a shadowed name and a variable two
\* binders away from its own.
C1_Witness ==
    /\ dbj.st = "returned"
    /\ AllBound(root_)
    /\ \E o \in Operands(root_) :
          /\ Distance(o) = 2
          /\ Cardinality({j \in 1..Len(o.binders) : o.binders[j] = o.name}) = 2

\* C2: in both modes, converting an AST with a variable no enclosing
\* Definition binds throws "Unknown variable", wherever the variable sits.
C2_UnboundAlwaysThrows ==
    HasUnbound(root_) =>
        /\ dbj.st # "none" => (dbj.st = "thrown" /\ dbj.what = "Unknown variable")
        /\ slc.st # "none" => (slc.st = "thrown" /\ slc.what = "Unknown variable")

\* The sub-expressions of an AST, by path from the root.
RECURSIVE Paths(_)
Paths(node) ==
    IF node = Null THEN {}
    ELSE {<<>>}
         \cup (IF node.type \in {"DEFINITION", "APPLICATION"}
               THEN {<<"left">> \o p : p \in Paths(node.left)} ELSE {})
         \cup (IF node.type \in {"APPLICATION", "GROUP"}
               THEN {<<"right">> \o p : p \in Paths(node.right)} ELSE {})

\* The AST with the sub-expression at path wrapped in a Group.
RECURSIVE GroupAt(_, _)
GroupAt(node, path) ==
    IF path = <<>> THEN Group(node)
    ELSE IF Head(path) = "left"
         THEN [node EXCEPT !.left = GroupAt(node.left, Tail(path))]
         ELSE [node EXCEPT !.right = GroupAt(node.right, Tail(path))]

\* Two conversions end alike: both throw the same error, or both return the
\* same term up to the order of siblings.
SameOutcome(r1, r2) ==
    /\ r1.st = r2.st
    /\ r1.what = r2.what
    /\ Shape(r1.set) = Shape(r2.set)

Fresh == [policy |-> heap.policy, n |-> 0]

\* C3: in both modes, wrapping any sub-expression in a Group leaves the
\* outcome of the conversion as it was.
C3_GroupTransparent ==
    \A p \in Paths(root_) :
        /\ dbj.st # "none" => SameOutcome(dbj, convert_dbj(GroupAt(root_, p), Fresh))
        /\ slc.st # "none" => SameOutcome(slc, convert(GroupAt(root_, p), Fresh))

\* The name-preserving rendering of a De Bruijn term: λ as the binder marker
\* {{}}, an integer n as make_number(n), nested sets alike.
RECURSIVE Lift(_)
LiftOf(e) ==
    CASE e.k = "sym" -> ShapeOf(Ptr(0, <<Ptr(0, <<>>)>>))
      [] e.k = "int" -> ShapeOf(Ptr(0, make_number(e.n, Fresh).set))
      [] e.k = "ptr" -> [k |-> "ptr", sym |-> "", n |-> 0, sub |-> Lift(e.s)]

Lift(S) ==
    IF S = <<>> THEN EmptyBag
    ELSE SetToBag({LiftOf(Head(S))}) (+) Lift(Tail(S))

\* C4: the two modes agree on every AST: both fail or both return, and the
\* name-preserving term is the De Bruijn term with integers and λ rendered
\* as sets.
C4_ModesAgree ==
    (dbj.st # "none" /\ slc.st # "none") =>
        /\ dbj.st = slc.st
        /\ dbj.st = "returned" => Shape(slc.set) = Lift(dbj.set)

(***************************************************************************)
(* SLC_set under construction: two SLC_set objects and the calls the       *)
(* program builds its sets with, elements.insert of a symbol, of an int    *)
(* and of a freshly allocated nested set, and make_number.                 *)
(***************************************************************************)
Objects == {1, 2}
Ints == {1, 2}
Depths == {0, 1}

\* What the driver remembers of its last call: the call, the object it went
\* to, the element handed over, the object as it was before, and the number
\* of calls so far.
Called(op, i, e) ==
    [op |-> op, obj |-> i, elem |-> e, before |-> sets[i], count |-> last.count + 1]

InitSets ==
    /\ heap \in [policy : Policies, n : {0}]
    /\ sets = [i \in Objects |-> <<>>]
    /\ last = [op |-> "none", obj |-> 1, elem |-> Num(0), before |-> <<>>, count |-> 0]
    /\ IdleConverter
    /\ IdleParser
    /\ IdleFront

\* sets[i].elements.insert(t), t a symbol such as the lambda marker.
InsertSymbol(i, t) ==
    /\ last.count < MaxInserts
    /\ sets' = [sets EXCEPT ![i] = Insert(@, Sym(t))]
    /\ last' = Called("sym", i, Sym(t))
    /\ UNCHANGED <<heap, root_, dbj, slc, str_, text_, lexer_, parser_, pos, stk, parsed>>

\* sets[i].elements.insert(n), n an int such as a position.
InsertInt(i, n) ==
    /\ last.count < MaxInserts
    /\ sets' = [sets EXCEPT ![i] = Insert(@, Num(n))]
    /\ last' = Called("int", i, Num(n))
    /\ UNCHANGED <<heap, root_, dbj, slc, str_, text_, lexer_, parser_, pos, stk, parsed>>

\* sets[i].elements.insert(std::make_shared<SLC_set>(std::move(x))), where x
\* is a new empty set (d = 0, as lambda_base) or a new set that holds one
\* (d = 1, as lambda_top).
InsertNested(i, d) ==
    /\ last.count < MaxInserts
    /\ LET x == IF d = 0 THEN [set |-> <<>>, al |-> heap]
                ELSE InsertShared(<<>>, <<>>, heap)
           r == InsertShared(sets[i], x.set, x.al)
       IN  /\ sets' = [sets EXCEPT ![i] = r.set]
           /\ heap' = r.al
           /\ last' = Called("nested", i, Ptr(make_shared(x.al), x.set))
    /\ UNCHANGED <<root_, dbj, slc, str_, text_, lexer_, parser_, pos, stk, parsed>>

\* sets[i] = make_number(number), into an object still empty.
MakeNumber(i, number) ==
    /\ last.count < MaxInserts
    /\ sets[i] = <<>>
    /\ LET r == make_number(number, heap)
       IN  /\ sets' = [sets EXCEPT ![i] = r.set]
           /\ heap' = r.al
    /\ last' = Called("number", i, Num(number))
    /\ UNCHANGED <<root_, dbj, slc, str_, text_, lexer_, parser_, pos, stk, parsed>>

NextSets ==
    \E i \in Objects :
        \/ \E t \in Symbols : InsertSymbol(i, t)
        \/ \E n \in Ints : InsertInt(i, n)
        \/ \E d \in Depths : InsertNested(i, d)
        \/ \E n \in 1..MaxNumber : MakeNumber(i, n)

SpecSets == InitSets /\ [][NextSets]_vars

\* The nested sets among the elements of S.
NestedIn(S) == {i \in 1..Len(S) : S[i].k = "ptr"}

\* S is what the comment above make_number draws for n: one set of two empty
\* sets, and n - 1 empty sets.
IsNumeral(S, n) ==
    /\ Len(S) = n
    /\ NestedIn(S) = 1..n
    /\ \E b \in 1..n :
          /\ Len(S[b].s) = 2
          /\ \A j \in 1..2 : S[b].s[j].k = "ptr" /\ S[b].s[j].s = <<>>
          /\ \A i \in (1..n) \ {b} : S[i].s = <<>>

\* C5: make_number(n), n >= 1, has exactly n elements, one set that holds
\* exactly two empty sets and n - 1 empty sets; 1, 2 and 3 render as in the
\* source's comment up to the order of siblings, and no other number has the
\* same term.
C5_MakeNumberShape ==
    last.op = "number" =>
        LET S == sets[last.obj]
            n == last.elem.n
        IN  /\ IsNumeral(S, n)
            /\ n = 1 => to_string(S) = "{{{}, {}}}"
            /\ n = 2 => to_string(S) \in {"{{{}, {}}, {}}", "{{}, {{}, {}}}"}
            /\ n = 3 => to_string(S) \in {"{{{}, {}}, {}, {}}", "{{}, {{}, {}}, {}}",
                                          "{{}, {}, {{}, {}}}"}
            /\ \A m \in 1..(MaxNumber + 1) :
                  m # n => Shape(make_number(m, Fresh).set) # Shape(S)

\* C5 witness: make_number(3) has been called.
C5_Witness ==
    /\ last.op = "number"
    /\ last.elem.n = 3
    /\ Len(sets[last.obj]) = 3

\* The element handed to the last insert was in the set already: the same
\* symbol, the same integer, or a nested set of the same structure.
WasPresent ==
    \E j \in 1..Len(last.before) : ShapeOf(last.before[j]) = ShapeOf(last.elem)

\* The last insert left the set as it was.
LeftAlone ==
    /\ Len(sets[last.obj]) = Len(last.before)
    /\ to_string(sets[last.obj]) = to_string(last.before)

C7_StructureDeterminesString ==
    Shape(sets[1]) = Shape(sets[2]) => to_string(sets[1]) = to_string(sets[2])

(***************************************************************************)
(* toposet_parser::parse_toposet, one step per character of the for loop.  *)
(***************************************************************************)
Texts == UNION {[1..k -> Chars] : k \in 0..MaxLen}

InitParser ==
    /\ heap \in [policy : Policies, n : {0}]
    /\ str_ \in Texts
    /\ pos = 0
    /\ stk = <<>>
    /\ parsed = NotCalled
    /\ IdleConverter
    /\ IdleSets
    /\ IdleFront

\* The loop is running and ch is the next character.
Reading(ch) == parsed.st = "none" /\ pos < Len(str_) /\ str_[pos + 1] = ch

\* ch == '{': SLC_set next; stk.push(next).
OpenBrace ==
    /\ Reading("{")
    /\ stk' = Append(stk, <<>>)
    /\ pos' = pos + 1
    /\ UNCHANGED <<heap, root_, dbj, slc, sets, last, str_, text_, lexer_, parser_, parsed>>

\* A faulty '}' step: a '}' that finds the stack empty is skipped.
CloseBraceIgnoresUnmatched ==
    /\ Reading("}")
    /\ pos' = pos + 1
    /\ IF stk = <<>>
       THEN UNCHANGED <<stk, heap, parsed>>
       ELSE LET completed_set == stk[Len(stk)]
                rest == SubSeq(stk, 1, Len(stk) - 1)
            IN  IF rest # <<>>
                THEN LET r == InsertShared(rest[Len(rest)], completed_set, heap)
                     IN  /\ stk' = [rest EXCEPT ![Len(rest)] = r.set]
                         /\ heap' = r.al
                         /\ UNCHANGED parsed
                ELSE /\ stk' = rest
                     /\ parsed' = Outcome(Returned(completed_set, heap))
                     /\ UNCHANGED heap
    /\ UNCHANGED <<root_, dbj, slc, sets, last, str_, text_, lexer_, parser_>>

\* A faulty '}' step: no return when the stack empties, the loop reads on.
CloseBraceReadsOn ==
    /\ Reading("}")
    /\ pos' = pos + 1
    /\ IF stk = <<>>
       THEN /\ parsed' = Outcome(Thrown("Unexpected '}'", heap))
            /\ UNCHANGED <<stk, heap>>
       ELSE LET completed_set == stk[Len(stk)]
                rest == SubSeq(stk, 1, Len(stk) - 1)
            IN  IF rest # <<>>
                THEN LET r == InsertShared(rest[Len(rest)], completed_set, heap)
                     IN  /\ stk' = [rest EXCEPT ![Len(rest)] = r.set]
                         /\ heap' = r.al
                         /\ UNCHANGED parsed
                ELSE /\ stk' = rest
                     /\ UNCHANGED <<heap, parsed>>
    /\ UNCHANGED <<root_, dbj, slc, sets, last, str_, text_, lexer_, parser_>>

\* ch == '}': throw on an empty stack; otherwise pop the completed set and
\* insert it into the new top, or return it when the stack is empty now.
CloseBrace ==
    /\ Reading("}")
    /\ pos' = pos + 1
    /\ IF stk = <<>>
       THEN /\ parsed' = Outcome(Thrown("Unexpected '}'", heap))
            /\ UNCHANGED <<stk, heap>>
       ELSE LET completed_set == stk[Len(stk)]
                rest == SubSeq(stk, 1, Len(stk) - 1)
            IN  IF rest # <<>>
                THEN LET r == InsertShared(rest[Len(rest)], completed_set, heap)
                     IN  /\ stk' = [rest EXCEPT ![Len(rest)] = r.set]
                         /\ heap' = r.al
                         /\ UNCHANGED parsed
                ELSE /\ stk' = rest
                     /\ parsed' = Outcome(Returned(completed_set, heap))
                     /\ UNCHANGED heap
    /\ UNCHANGED <<root_, dbj, slc, sets, last, str_, text_, lexer_, parser_>>

\* Any other character: the loop body does nothing.
OtherChar ==
    /\ \E ch \in Chars \ {"{", "}"} : Reading(ch)
    /\ pos' = pos + 1
    /\ UNCHANGED <<heap, root_, dbj, slc, sets, last, str_, text_, lexer_, parser_, stk, parsed>>

\* The loop ran out of characters: throw "Could not parse!".
EndOfInput ==
    /\ parsed.st = "none"
    /\ pos = Len(str_)
    /\ parsed' = Outcome(Thrown("Could not parse!", heap))
    /\ UNCHANGED <<heap, root_, dbj, slc, sets, last, str_, text_, lexer_, parser_, pos, stk>>

NextParser ==
    \/ OpenBrace
    \/ CloseBrace
    \/ OtherChar
    \/ EndOfInput

SpecParser == InitParser /\ [][NextParser]_vars

(***************************************************************************)
(* The brace structure of a text, read off the text alone.                 *)
(***************************************************************************)
\* '{' minus '}' among s[a..b].
Balance(s, a, b) ==
    Cardinality({i \in a..b : s[i] = "{"}) - Cardinality({i \in a..b : s[i] = "}"})

Braces(s) == {i \in 1..Len(s) : s[i] \in {"{", "}"}}

\* The first brace of the text is a '}'.
ClosesFirst(s) ==
    \E i \in Braces(s) : s[i] = "}" /\ \A j \in Braces(s) : i <= j

\* The '}' at j closes the '{' at i.
Closes(s, i, j) ==
    /\ s[i] = "{" /\ s[j] = "}" /\ i < j
    /\ Balance(s, i, j) = 0
    /\ \A k \in i..(j - 1) : Balance(s, i, k) > 0

\* The text's first brace is a '{' and some '}' closes it.
HasGroup(s) ==
    \E i \in Braces(s) :
        /\ \A j \in Braces(s) : i <= j
        /\ \E j \in Braces(s) : Closes(s, i, j)

GroupStart(s) == CHOOSE i \in Braces(s) : \A j \in Braces(s) : i <= j
GroupEnd(s) == CHOOSE j \in Braces(s) : Closes(s, GroupStart(s), j)

\* The '{' directly inside the pair that opens at i.
ChildrenOf(s, i) ==
    LET j == CHOOSE j \in Braces(s) : Closes(s, i, j)
    IN  {c \in (i + 1)..(j - 1) : s[c] = "{" /\ Balance(s, i + 1, c - 1) = 0}

\* The nesting of the pair that opens at i: one nested set per pair directly
\* inside it, each with its own nesting.
RECURSIVE Skeleton(_, _)
RECURSIVE SkeletonOfAll(_, _)
SkeletonOfAll(s, cs) ==
    IF cs = {} THEN EmptyBag
    ELSE LET c == CHOOSE c \in cs : TRUE
         IN  SetToBag({[k |-> "ptr", sym |-> "", n |-> 0, sub |-> Skeleton(s, c)]})
             (+) SkeletonOfAll(s, cs \ {c})

Skeleton(s, i) == SkeletonOfAll(s, ChildrenOf(s, i))

\* C8: when the first brace group of the text is balanced, parse_toposet
\* returns a term whose nesting is the nesting of the brace pairs of that
\* group, one nested set per pair, equal-looking siblings kept apart and
\* other characters adding nothing; "{{}{{}}}" renders as itself up to the
\* order of siblings.
C8_ParseKeepsNesting ==
    (HasGroup(str_) /\ parsed.st # "none") =>
        /\ parsed.st = "returned"
        /\ Shape(parsed.set) = Skeleton(str_, GroupStart(str_))
        /\ Len(parsed.set) = Cardinality(ChildrenOf(str_, GroupStart(str_)))
        /\ str_ = <<"{", "{", "}", "{", "{", "}", "}", "}">>
              => to_string(parsed.set) \in {"{{}, {{}}}", "{{{}}, {}}"}

\* C8 witness: a returned term with two equal-looking empty siblings and a
\* separator between them.
C8_Witness ==
    /\ parsed.st = "returned"
    /\ \E i \in 1..Len(str_) : str_[i] = ","
    /\ \E i, j \in 1..Len(parsed.set) :
          i # j /\ parsed.set[i].s = <<>> /\ parsed.set[j].s = <<>>

\* C9: parse_toposet throws "Unexpected '}'" exactly when a '}' is read with
\* the stack empty, which is when the first brace of the text is a '}'; it
\* throws "Could not parse!" exactly when the text ends with no '{' closed
\* back to an empty stack; a call that throws returns no term.
C9_ParseErrors ==
    /\ parsed.st = "none" =>
          \A k \in 1..pos : str_[k] = "}" => Balance(str_, 1, k - 1) > 0
    /\ parsed.st # "none" =>
          /\ (parsed.st = "thrown" /\ parsed.what = "Unexpected '}'")
                <=> ClosesFirst(str_)
          /\ (parsed.st = "thrown" /\ parsed.what = "Unexpected '}'")
                => (stk = <<>> /\ str_[pos] = "}")
          /\ (parsed.st = "thrown" /\ parsed.what = "Could not parse!")
                <=> (~ClosesFirst(str_) /\ ~HasGroup(str_))
          /\ (parsed.st = "thrown" /\ parsed.what = "Could not parse!")
                => pos = Len(str_)
          /\ parsed.st = "thrown" => parsed.set = <<>>
          /\ parsed.st = "returned" => HasGroup(str_)

\* C9 witness: "Unexpected '}'" thrown after characters that are no brace.
C9_Witness ==
    /\ parsed.st = "thrown"
    /\ parsed.what = "Unexpected '}'"
    /\ pos > 1

\* C10: parse_toposet returns at the '}' that closes the first '{': it never
\* reads past it, it returns the term of that group alone, and what follows
\* in the text raises no error.
C10_ReturnsAtFirstGroup ==
    HasGroup(str_) =>
        /\ pos <= GroupEnd(str_)
        /\ parsed.st # "none" =>
              /\ parsed.st = "returned"
              /\ pos = GroupEnd(str_)
              /\ stk = <<>>
              /\ Shape(parsed.set)
                    = Skeleton(SubSeq(str_, 1, pos), GroupStart(SubSeq(str_, 1, pos)))

\* C10 witness: a term returned with a stray '}' and an unclosed '{' left
\* unread behind it.
C10_Witness ==
    /\ parsed.st = "returned"
    /\ \E i, j \in (pos + 1)..Len(str_) : i < j /\ str_[i] = "}" /\ str_[j] = "{"

(***************************************************************************)
(* ULC_lexer.  The text is a sequence of one-character strings and pos_    *)
(* counts the characters before the cursor, as the int pos_ of the code.   *)
(***************************************************************************)
MaxText == 4       \* characters of a text handed to a bare ULC_lexer

LexChars == {".", "\\", "(", ")", "x", "1", " ", "#"}
isspace(ch) == ch = " "
isalnum(ch) == ch \in {"x", "y", "1"}

\* ULC_token(type, text); ULC_token(EOF_TOK) leaves the text empty.
ULC_token(type, text) == [type |-> type, text |-> text]
EOF_TOK == ULC_token("EOF_TOK", "")

\* text_.substr(from, n) as one string.
RECURSIVE substr(_, _, _)
substr(text, from, n) ==
    IF n = 0 THEN "" ELSE text[from + 1] \o substr(text, from + 1, n - 1)

\* while (std::isspace(ch)): the cursor after the loop, the length of the
\* text when the loop ran off its end.
RECURSIVE SkipSpace(_, _)
SkipSpace(text, p) ==
    IF p >= Len(text) THEN p
    ELSE IF isspace(text[p + 1]) THEN SkipSpace(text, p + 1) ELSE p

\* A faulty lexer cuts a VARIABLE after its first character.
SkipOne(text, p) == p + 1

\* while (std::isalnum(ch)): the cursor after the loop.
RECURSIVE SkipAlnum(_, _)
SkipAlnum(text, p) ==
    IF p >= Len(text) THEN p
    ELSE IF isalnum(text[p + 1]) THEN SkipAlnum(text, p + 1) ELSE p

\* What one call did: the token returned, the cursor left behind, where the
\* token starts (original_pos), and the message of the exception thrown.
Lexed(tok, p, from) == [tok |-> tok, pos_ |-> p, from |-> from, thrown |-> ""]

\* ULC_lexer::next_token() on a lexer whose cursor is at p.
lexer_next_token(text, p) ==
    IF p >= Len(text) THEN Lexed(EOF_TOK, p, p)
    ELSE LET original_pos == SkipSpace(text, p)
         IN  IF original_pos >= Len(text)
             THEN Lexed(EOF_TOK, original_pos, original_pos)
             ELSE LET ch == text[original_pos + 1]
                  IN  CASE ch = "." ->
                             Lexed(ULC_token("DOT", "."), original_pos + 1, original_pos)
                        [] ch = "\\" ->
                             Lexed(ULC_token("LAMBDA", "\\"), original_pos + 1, original_pos)
                        [] ch = "(" ->
                             Lexed(ULC_token("O_PAREN", "("), original_pos + 1, original_pos)
                        [] ch = ")" ->
                             Lexed(ULC_token("C_PAREN", ")"), original_pos + 1, original_pos)
                        [] isalnum(ch) ->
                             LET end == SkipAlnum(text, original_pos)
                             IN  Lexed(ULC_token("VARIABLE",
                                                 substr(text, original_pos,
                                                        end - original_pos)),
                                       end, original_pos)
                        [] OTHER ->
                             [tok |-> EOF_TOK, pos_ |-> original_pos,
                              from |-> original_pos, thrown |-> "Invalid token"]

(***************************************************************************)
(* A bare lexer, called again and again on one text.  lexer_.out keeps the *)
(* tokens returned so far.  A call that threw left the cursor where it     *)
(* was, so a further call would throw again and change nothing.            *)
(***************************************************************************)
LexTexts == UNION {[1..k -> LexChars] : k \in 0..MaxText}

InitLexer ==
    /\ heap = [policy |-> "up", n |-> 0]
    /\ IdleConverter
    /\ IdleSets
    /\ IdleParser
    /\ text_ \in LexTexts
    /\ lexer_ = NewLexer
    /\ parser_ = NoParser

NextToken ==
    /\ lexer_.thrown = ""
    /\ Len(lexer_.out) < MaxText + 3
    /\ LET r == lexer_next_token(text_, lexer_.pos_)
       IN  lexer_' = [pos_ |-> r.pos_,
                      out |-> IF r.thrown = "" THEN Append(lexer_.out, r.tok)
                              ELSE lexer_.out,
                      thrown |-> r.thrown]
    /\ UNCHANGED <<heap, root_, dbj, slc, sets, last, str_, pos, stk, parsed,
                   text_, parser_>>

NextLexer == NextToken

SpecLexer == InitLexer /\ [][NextLexer]_vars

\* The tokens of a text, read off the text itself: a token starts at every
\* character (counted from 1) that is not whitespace and does not continue
\* a run of alphanumeric characters.
StartsToken(text, i) ==
    /\ ~isspace(text[i])
    /\ isalnum(text[i]) => (i = 1 \/ ~isalnum(text[i - 1]))

RunEnd(text, i) ==
    CHOOSE j \in i..Len(text) :
        /\ \A k \in i..j : isalnum(text[k])
        /\ j = Len(text) \/ ~isalnum(text[j + 1])

TokenAt(text, i) ==
    CASE text[i] = "." -> ULC_token("DOT", ".")
      [] text[i] = "\\" -> ULC_token("LAMBDA", "\\")
      [] text[i] = "(" -> ULC_token("O_PAREN", "(")
      [] text[i] = ")" -> ULC_token("C_PAREN", ")")
      [] isalnum(text[i]) ->
             ULC_token("VARIABLE", substr(text, i - 1, RunEnd(text, i) - i + 1))
      [] OTHER -> ULC_token("INVALID", text[i])

RECURSIVE TokensUpTo(_, _)
TokensUpTo(text, upto) ==
    IF upto = 0 THEN <<>>
    ELSE IF StartsToken(text, upto)
         THEN Append(TokensUpTo(text, upto - 1), TokenAt(text, upto))
         ELSE TokensUpTo(text, upto - 1)

\* The first character at or after the cursor that is not whitespace, 0
\* when there is none.
NextVisible(text, p) ==
    IF \E i \in (p + 1)..Len(text) : ~isspace(text[i])
    THEN CHOOSE i \in (p + 1)..Len(text) :
             ~isspace(text[i]) /\ \A k \in (p + 1)..(i - 1) : isspace(text[k])
    ELSE 0

Recognized(ch) == ch \in {".", "\\", "(", ")"} \/ isalnum(ch)

EndsReturned == {i \in 1..Len(lexer_.out) : lexer_.out[i] = EOF_TOK}

\* What the tokens returned so far and the cursor are, in every state.
LexerSoFar ==
    /\ lexer_.pos_ \in 0..Len(text_)
    /\ \E n \in 0..Len(lexer_.out) :
          /\ SubSeq(lexer_.out, 1, n) = TokensUpTo(text_, lexer_.pos_)
          /\ EndsReturned = (n + 1)..Len(lexer_.out)
    /\ EndsReturned # {} => lexer_.pos_ = Len(text_)
    /\ lexer_.thrown \in {"", "Invalid token"}
    /\ lexer_.thrown # "" =>
          /\ lexer_.pos_ < Len(text_)
          /\ ~isspace(text_[lexer_.pos_ + 1])
          /\ ~Recognized(text_[lexer_.pos_ + 1])

\* What one call does to them.
LexerStep ==
    LET v == NextVisible(text_, lexer_.pos_)
    IN  /\ lexer_'.pos_ >= lexer_.pos_
        /\ lexer_.out # <<>> /\ lexer_.out[Len(lexer_.out)] = EOF_TOK =>
              lexer_'.out = Append(lexer_.out, EOF_TOK)
        /\ v = 0 => lexer_'.out = Append(lexer_.out, EOF_TOK)
        /\ v # 0 /\ Recognized(text_[v]) =>
              /\ lexer_'.out = Append(lexer_.out, TokenAt(text_, v))
              /\ lexer_'.thrown = ""
        /\ v # 0 /\ ~Recognized(text_[v]) =>
              /\ lexer_'.thrown = "Invalid token"
              /\ lexer_'.out = lexer_.out

\* C13: repeated next_token() calls return, in source order, one token for
\* each ".", "\", "(", ")" and one VARIABLE for each maximal alphanumeric run,
\* carrying that run, with whitespace skipped, and then END; after END every
\* call returns END; the cursor never decreases and never exceeds the length
\* of the text; a non-whitespace character outside the set throws
\* "Invalid token".
C13_LexerTokens == [](LexerSoFar) /\ [][LexerStep]_vars

\* A two-character VARIABLE, whitespace skipped, and END returned twice.
C13_Witness ==
    /\ Len(lexer_.out) >= 4
    /\ lexer_.out[1] = ULC_token("VARIABLE", "x1")
    /\ lexer_.out[2] = ULC_token("DOT", ".")
    /\ \E i \in 1..Len(text_) : isspace(text_[i])
    /\ lexer_.out[Len(lexer_.out)] = EOF_TOK
    /\ lexer_.out[Len(lexer_.out) - 1] = EOF_TOK

(***************************************************************************)
(* ULC_parser.  A parser is a record: tokens_ and token_id_ as in the      *)
(* code, pos_ the cursor of its lexer_, and st/what the exception in       *)
(* flight, if any.  Three fields are bookkeeping the code does not have:   *)
(* starts (where each buffered token starts in the text), lexed (calls of  *)
(* lexer_.next_token() made) and log (what the parser did, in order).      *)
(* Every function returns the parser it leaves behind; a function that     *)
(* returns a node returns [node, ps].                                      *)
(***************************************************************************)
Note(ps, op, entry) ==
    [ps EXCEPT !.log = Append(@, [op |-> op, entry |-> entry,
                                  token_id_ |-> ps.token_id_,
                                  size |-> Len(ps.tokens_),
                                  lexed |-> ps.lexed])]

Throw(ps, what) == [ps EXCEPT !.st = "thrown", !.what = what]

\* tokens_.push_back(lexer_.next_token()), with what the lexer did.
Pushed(ps, r) ==
    IF r.thrown # ""
    THEN Throw([ps EXCEPT !.pos_ = r.pos_, !.lexed = @ + 1], r.thrown)
    ELSE [ps EXCEPT !.pos_ = r.pos_, !.lexed = @ + 1,
                    !.tokens_ = Append(@, r.tok),
                    !.starts = Append(@, r.from)]

PushNext(text, ps) == Pushed(ps, lexer_next_token(text, ps.pos_))

\* ULC_parser(ULC_lexer lexer) : lexer_(lexer), token_id_(0).  When the
\* lexer throws here there is no parser, and nothing to note.
NoteBuilt(built) ==
    IF built.st = "thrown" THEN built ELSE Note(built, "ULC_parser", 0)

ULC_parser(text) == NoteBuilt(PushNext(text, [NoParser EXCEPT !.st = "running"]))

peek(ps) == ps.tokens_[ps.token_id_ + 1]

\* if (token_id_ >= tokens_.size()) tokens_.push_back(lexer_.next_token())
PushIfNew(text, moved) ==
    IF moved.token_id_ >= Len(moved.tokens_) THEN PushNext(text, moved) ELSE moved

next_token(text, ps) ==
    Note(PushIfNew(text, [ps EXCEPT !.token_id_ = @ + 1]),
         "next_token", ps.token_id_)

consume_type(text, ps, type) ==
    IF peek(ps).type = type
    THEN [ok |-> TRUE, ps |-> next_token(text, ps)]
    ELSE [ok |-> FALSE, ps |-> ps]

consume_variable(text, ps) ==
    IF peek(ps).type = "VARIABLE"
    THEN [node |-> Atomic(peek(ps).text), ps |-> next_token(text, ps)]
    ELSE [node |-> Null, ps |-> ps]

\* An exception passing through a function: no node, the parser as it was
\* when the exception was thrown.
Unwind(ps) == [node |-> Null, ps |-> ps]

RECURSIVE parse_abstraction(_, _)
RECURSIVE parse_expression(_, _)
RECURSIVE parse_atomic(_, _)
RECURSIVE Fold(_, _, _)

\* A faulty parse_abstraction gives up without putting token_id_ back.
GiveUpInPlace(ps, original_id) ==
    [node |-> Null, ps |-> Note(ps, "parse_abstraction failed", original_id)]

\* token_id_ = original_id; return nullptr;
GiveUp(ps, original_id) ==
    [node |-> Null,
     ps |-> Note([ps EXCEPT !.token_id_ = original_id],
                 "parse_abstraction failed", original_id)]

\* parse_abstraction, step by step: what it does with the outcome of
\* consume_type(LAMBDA), of consume_variable(), of consume_type(DOT) and of
\* parse_expression().
WithBody(var, expr, original_id) ==
    IF expr.ps.st = "thrown" THEN Unwind(expr.ps)
    ELSE IF expr.node = Null THEN GiveUp(expr.ps, original_id)
    ELSE [node |-> Definition(var.value, expr.node), ps |-> expr.ps]

AfterDot(text, var, dot, original_id) ==
    IF dot.ps.st = "thrown" THEN Unwind(dot.ps)
    ELSE IF ~dot.ok THEN GiveUp(dot.ps, original_id)
    ELSE WithBody(var, parse_expression(text, dot.ps), original_id)

AfterVariable(text, var, original_id) ==
    IF var.ps.st = "thrown" THEN Unwind(var.ps)
    ELSE IF var.node = Null THEN GiveUp(var.ps, original_id)
    ELSE AfterDot(text, var.node, consume_type(text, var.ps, "DOT"), original_id)

AfterLambda(text, lambda, original_id) ==
    IF lambda.ps.st = "thrown" THEN Unwind(lambda.ps)
    ELSE IF ~lambda.ok THEN GiveUp(lambda.ps, original_id)
    ELSE AfterVariable(text, consume_variable(text, lambda.ps), original_id)

parse_abstraction(text, ps) ==
    AfterLambda(text, consume_type(text, ps, "LAMBDA"), ps.token_id_)

\* A faulty fold hangs the head under the argument.
FoldRight(head, next_arg) == Application(next_arg, head)

\* app->left = std::move(head); app->right = std::move(next_arg);
FoldLeft(head, next_arg) == Application(head, next_arg)

\* One round of the while (true) loop of parse_expression, with the atomic
\* it parsed.
Folded(text, head, next_arg) ==
    IF next_arg.ps.st = "thrown" THEN Unwind(next_arg.ps)
    ELSE IF next_arg.node = Null THEN [node |-> head, ps |-> next_arg.ps]
    ELSE Fold(text, FoldLeft(head, next_arg.node), next_arg.ps)

\* The loop, entered with the head parsed.
Fold(text, head, ps) ==
    IF peek(ps).type \in {"VARIABLE", "O_PAREN"}
    THEN Folded(text, head, parse_atomic(text, ps))
    ELSE [node |-> head, ps |-> ps]

\* parse_expression with the head it parsed.
AfterHead(text, head) ==
    IF head.ps.st = "thrown" THEN Unwind(head.ps)
    ELSE IF head.node = Null THEN [node |-> Null, ps |-> head.ps]
    ELSE Fold(text, head.node, head.ps)

parse_expression(text, ps) ==
    IF peek(ps).type = "LAMBDA" THEN parse_abstraction(text, ps)
    ELSE AfterHead(text, parse_atomic(text, ps))

\* A faulty parse_atomic returns the group whether or not ")" follows.
Unclosed(node, ps) == [node |-> node, ps |-> ps]

\* if (!consume_type(C_PAREN)) throw std::runtime_error("Unbalanced parens!")
NotClosed(node, ps) == Unwind(Throw(ps, "Unbalanced parens!"))

\* parse_atomic, step by step: what it does with the outcome of
\* consume_type(C_PAREN), of parse_expression() and of consume_type(O_PAREN).
AfterClose(node, close, id) ==
    IF close.ps.st = "thrown" THEN Unwind(close.ps)
    ELSE IF ~close.ok THEN NotClosed(node, Note(close.ps, "not closed", id))
    ELSE [node |-> node, ps |-> Note(close.ps, ")", id)]

AfterInner(text, inner, id) ==
    IF inner.ps.st = "thrown" THEN Unwind(inner.ps)
    ELSE AfterClose(Group(inner.node), consume_type(text, inner.ps, "C_PAREN"), id)

AfterOpen(text, open, id) ==
    IF open.ps.st = "thrown" THEN Unwind(open.ps)
    ELSE IF open.ok
         THEN AfterInner(text, parse_expression(text, Note(open.ps, "(", id)), id)
         ELSE consume_variable(text, open.ps)

parse_atomic(text, ps) ==
    AfterOpen(text, consume_type(text, ps, "O_PAREN"), ps.token_id_)

\* A faulty parse() takes tokens left over for an error.
TokensLeftThrow(r) ==
    IF r.ps.st # "thrown" /\ r.node # Null /\ peek(r.ps) # EOF_TOK
    THEN Unwind(Throw(r.ps, "Could not parse!"))
    ELSE r

parse_all(text, ps) == TokensLeftThrow(parse_expression(text, ps))

parse(text, ps) == parse_expression(text, ps)

\* ULC_lexer lexer(text); ULC_parser parser(lexer); parser.parse()
ParseWith(text, built) ==
    IF built.st = "thrown" THEN Unwind(built) ELSE parse(text, built)

ParseOf(text) == ParseWith(text, ULC_parser(text))

(***************************************************************************)
(* The constructor ULC_converter(std::string_view text): a lexer on the    *)
(* text, a parser on the lexer, root_ = parser.parse().  The texts are     *)
(* spelled from words, with one space between two neighbouring names.      *)
(***************************************************************************)
MaxWords == 5      \* words of a text handed to ULC_converter

Words == {"\\", ".", "(", ")", "x", "y", "#"}

RECURSIVE Spell(_)
Spell(words) ==
    IF words = <<>> THEN <<>>
    ELSE IF Len(words) > 1 /\ isalnum(words[1]) /\ isalnum(words[2])
         THEN <<words[1], " ">> \o Spell(Tail(words))
         ELSE <<words[1]>> \o Spell(Tail(words))

SourcesOf(n) == {Spell(words) : words \in UNION {[1..k -> Words] : k \in 0..n}}

InitParse ==
    /\ heap = [policy |-> "up", n |-> 0]
    /\ IdleConverter
    /\ IdleSets
    /\ IdleParser
    /\ text_ \in SourcesOf(MaxWords)
    /\ lexer_ = NewLexer
    /\ parser_ = NoParser

\* The parser when the constructor is left, and the root_ it stored; an
\* exception leaves no converter and so no root_.
ParserLeft(r) == IF r.ps.st = "thrown" THEN r.ps ELSE [r.ps EXCEPT !.st = "parsed"]
RootStored(r) == IF r.ps.st = "thrown" THEN Null ELSE r.node

Construct ==
    /\ parser_.st = "none"
    /\ parser_' = ParserLeft(ParseOf(text_))
    /\ root_' = RootStored(ParseOf(text_))
    /\ UNCHANGED <<heap, dbj, slc, sets, last, str_, pos, stk, parsed,
                   text_, lexer_>>

NextParse == Construct

SpecParse == InitParse /\ [][NextParse]_vars

(***************************************************************************)
(* The pipeline of display(): ULC_converter(text), then convert_dbj() and  *)
(* convert() on the converter, when the constructor returned.              *)
(***************************************************************************)
MaxSource == 3     \* words of a text handed to the pipeline

InitPipeline ==
    /\ heap \in [policy : Policies, n : {0}]
    /\ IdleConverter
    /\ IdleSets
    /\ IdleParser
    /\ text_ \in SourcesOf(MaxSource)
    /\ lexer_ = NewLexer
    /\ parser_ = NoParser

NextPipeline == Construct \/ ConvertDbj \/ Convert

SpecPipeline == InitPipeline /\ [][NextPipeline]_vars

\* The texts at whose start no production matches: the empty text, a text
\* starting with "." or ")", an empty pair of parentheses, and a "\" not
\* followed by a name and a ".".
NoProduction ==
    \/ text_ = <<>>
    \/ Len(text_) >= 1 /\ text_[1] \in {".", ")"}
    \/ Len(text_) >= 2 /\ text_[1] = "(" /\ text_[2] = ")"
    \/ /\ Len(text_) >= 1 /\ text_[1] = "\\"
       /\ \/ Len(text_) < 3
          \/ ~isalnum(text_[2])
          \/ text_[3] # "."

\* C11: when no production matches at the current position, parse() fails
\* with an exception and the pipeline built on it produces no Set Term:
\* neither convert_dbj() nor convert() returns.
C11_UnparsableGivesNoTerm ==
    NoProduction =>
        /\ parser_.st \in {"none", "thrown"}
        /\ dbj.st # "returned"
        /\ slc.st # "returned"

\* The tokens the parser has consumed: those before token_id_.
Consumed == SubSeq(parser_.tokens_, 1, parser_.token_id_)

\* How many "(" of a token sequence are still open after its first n tokens.
RECURSIVE ParenDepth(_, _)
ParenDepth(toks, n) ==
    IF n = 0 THEN 0
    ELSE ParenDepth(toks, n - 1)
         + (IF toks[n].type = "O_PAREN" THEN 1
            ELSE IF toks[n].type = "C_PAREN" THEN -1 ELSE 0)

RECURSIVE Groups(_)
Groups(node) ==
    CASE node.type = "GROUP" -> 1 + Groups(node.right)
      [] node.type = "DEFINITION" -> Groups(node.left)
      [] node.type = "APPLICATION" -> Groups(node.left) + Groups(node.right)
      [] OTHER -> 0

Did(op) == {i \in 1..Len(parser_.log) : parser_.log[i].op = op}

\* C12: when the parser has consumed a "(" and the expression parsed after
\* it is not followed by a ")" token, the parse ends with the exception
\* "Unbalanced parens!"; so in the tokens consumed for a returned AST every
\* "(" has its ")", at every depth, and each pair is one GROUP of the AST.
C12_ParensBalanced ==
    /\ Did("not closed") # {} =>
          parser_.st = "thrown" /\ parser_.what = "Unbalanced parens!"
    /\ parser_.st = "parsed" =>
          /\ \A n \in 0..Len(Consumed) : ParenDepth(Consumed, n) >= 0
          /\ ParenDepth(Consumed, Len(Consumed)) = 0
          /\ Cardinality(Did("(")) = Cardinality(Did(")"))
          /\ Groups(root_) = Cardinality(Did("("))
          /\ Groups(root_) =
                Cardinality({i \in 1..Len(Consumed) : Consumed[i].type = "O_PAREN"})

\* A group inside a group, both closed.
C12_Witness ==
    /\ parser_.st = "parsed"
    /\ root_ = Group(Group(Atomic("x")))
    /\ Cardinality(Did(")")) = 2

\* All tokens of the text, read off the text itself.
AllTokens == TokensUpTo(text_, Len(text_))

\* A juxtaposition of atomics: a balanced token sequence whose tokens
\* outside every pair of parentheses are names and opening parentheses.
Juxtaposed(toks) ==
    /\ \A n \in 0..Len(toks) : ParenDepth(toks, n) >= 0
    /\ ParenDepth(toks, Len(toks)) = 0
    /\ \A i \in 1..Len(toks) :
          /\ toks[i].type # "INVALID"
          /\ ParenDepth(toks, i - 1) = 0 => toks[i].type \in {"VARIABLE", "O_PAREN"}

\* The tokens its atomics start with, in order.
RECURSIVE AtomicStarts(_, _)
AtomicStarts(toks, n) ==
    IF n = 0 THEN <<>>
    ELSE IF ParenDepth(toks, n - 1) = 0
         THEN Append(AtomicStarts(toks, n - 1), toks[n])
         ELSE AtomicStarts(toks, n - 1)

\* An AST taken apart along its function children: the innermost function
\* first, then the arguments applied to it, in order.
RECURSIVE Spine(_)
Spine(node) ==
    IF node.type = "APPLICATION"
    THEN Append(Spine(node.left), node.right)
    ELSE <<node>>

\* node is Application(...Application(a1, a2)..., ak) for the atomics of toks.
LeftFolded(node, toks) ==
    LET atomics == AtomicStarts(toks, Len(toks))
    IN  /\ Len(Spine(node)) = Len(atomics)
        /\ \A j \in 1..Len(atomics) :
              IF atomics[j].type = "VARIABLE"
              THEN Spine(node)[j] = Atomic(atomics[j].text)
              ELSE Spine(node)[j].type = "GROUP"

IsAbstractionHead(toks) ==
    /\ Len(toks) >= 3
    /\ toks[1].type = "LAMBDA" /\ toks[2].type = "VARIABLE" /\ toks[3].type = "DOT"

\* C14: a juxtaposition of k >= 2 atomics a1 ... ak, at top level or as the
\* body of an abstraction, parses to Application(...Application(a1, a2)...,
\* ak): the head built so far is the left child of each new Application and
\* the atomic just parsed its right child.
C14_LeftAssociative ==
    parser_.st = "parsed" =>
        /\ Juxtaposed(AllTokens) /\ Len(AtomicStarts(AllTokens, Len(AllTokens))) >= 2
              => LeftFolded(root_, AllTokens)
        /\ LET body == SubSeq(AllTokens, 4, Len(AllTokens))
           IN  /\ IsAbstractionHead(AllTokens)
               /\ Juxtaposed(body)
               /\ Len(AtomicStarts(body, Len(body))) >= 2
               => /\ root_.type = "DEFINITION"
                  /\ root_.right = Atomic(AllTokens[2].text)
                  /\ LeftFolded(root_.left, body)

\* Three atomics folded, the second a group.
C14_Witness ==
    /\ parser_.st = "parsed"
    /\ root_ = Application(Application(Atomic("x"), Group(Atomic("y"))), Atomic("x"))

\* The text before its character c (counted from 1).
Before(c) == SubSeq(text_, 1, c - 1)

\* parse() returned an AST for the whole of a text.
ParsesWhole(r) == r.ps.st # "thrown" /\ r.node # Null /\ peek(r.ps) = EOF_TOK

Logged == 1..Len(parser_.log)

\* Every parse_abstraction that returned failure left token_id_ where it
\* found it, on a "\" token.
AbstractionsBacktrack ==
    \A i \in Did("parse_abstraction failed") :
        /\ parser_.log[i].token_id_ = parser_.log[i].entry
        /\ parser_.tokens_[parser_.log[i].entry + 1].type = "LAMBDA"

\* tokens_ only grows, and holds the tokens of the text in order, each once.
BufferKept ==
    /\ \A i \in Logged : i > 1 => parser_.log[i].size >= parser_.log[i - 1].size
    /\ Len(parser_.tokens_) <= Len(AllTokens) + 1
    /\ parser_.tokens_ =
          SubSeq(Append(AllTokens, EOF_TOK), 1, Len(parser_.tokens_))

\* The i-th step ended with lexer_.next_token() throwing.
LexerThrewAt(i) == parser_.what = "Invalid token" /\ i = Len(parser_.log)

CursorInBuffer(i) ==
    /\ 0 <= parser_.log[i].token_id_
    /\ parser_.log[i].token_id_ < parser_.log[i].size
    /\ parser_.log[i].lexed = parser_.log[i].size

UnboundOperand(root) == \E o \in Operands(root) : ~IsBound(o)

\* C16: in both modes a variable occurrence resolves only against the
\* binders of the Definitions that lexically enclose it: a conversion throws
\* "Unknown variable" only when some operand has no enclosing binder of its
\* name, and never returns when one has none, wherever else in the AST,
\* before it or after it, the name is bound.
C16_LexicalScope ==
    /\ dbj.st # "none" =>
          (dbj.st = "thrown" /\ dbj.what = "Unknown variable") <=> UnboundOperand(root_)
    /\ slc.st # "none" =>
          /\ slc.what = "Unknown variable" => UnboundOperand(root_)
          /\ UnboundOperand(root_) => slc.st = "thrown"

\* (\x.x) x: the x bound inside the function is unknown in the argument.
C16_Witness ==
    /\ root_ = Application(Group(Definition("x", Atomic("x"))), Atomic("x"))
    /\ dbj.what = "Unknown variable"
    /\ slc.what = "Unknown variable"

\* The sub-expression at a path, the names captured on the way to it
\* (innermost first), and the AST with the children of the Application at
\* the path exchanged.
RECURSIVE SubAt(_, _)
SubAt(node, path) ==
    IF path = <<>> THEN node
    ELSE IF Head(path) = "left" THEN SubAt(node.left, Tail(path))
         ELSE SubAt(node.right, Tail(path))

RECURSIVE CapturedAt(_, _, _)
CapturedAt(node, path, captured) ==
    IF path = <<>> THEN captured
    ELSE IF Head(path) = "left"
         THEN CapturedAt(node.left, Tail(path),
                         IF node.type = "DEFINITION"
                         THEN <<node.right.value>> \o captured ELSE captured)
         ELSE CapturedAt(node.right, Tail(path), captured)

RECURSIVE SwapAt(_, _)
SwapAt(node, path) ==
    IF path = <<>> THEN [node EXCEPT !.left = node.right, !.right = node.left]
    ELSE IF Head(path) = "left"
         THEN [node EXCEPT !.left = SwapAt(node.left, Tail(path))]
         ELSE [node EXCEPT !.right = SwapAt(node.right, Tail(path))]

Applications(root) == {p \in Paths(root) : SubAt(root, p).type = "APPLICATION"}

\* term has exactly two elements: a set holding only f, and a; f and a being
\* the single elements of the terms ef and ea.
WrapsFirst(term, ef, ea) ==
    /\ Len(term) = 2 /\ Len(ef) = 1 /\ Len(ea) = 1
    /\ \E i, j \in 1..2 :
          /\ i # j
          /\ term[i].k = "ptr"
          /\ Len(term[i].s) = 1
          /\ ShapeOf(term[i].s[1]) = ShapeOf(ef[1])
          /\ ShapeOf(term[j]) = ShapeOf(ea[1])

\* What C18 says of the Application at path p, for one mode: cs converts a
\* node and op an operand, given the captured names and the allocator.
Distinguishes(cs(_, _, _, _), op(_, _, _, _, _), whole(_, _), result, p) ==
    LET node == SubAt(root_, p)
        captured == CapturedAt(root_, p, <<>>)
        here == cs(node, 0, captured, Fresh)
        there == cs(SwapAt(node, <<>>), 0, captured, Fresh)
        ef == op(<<>>, node.left, 0, captured, Fresh)
        ea == op(<<>>, node.right, 0, captured, Fresh)
        swapped == whole(SwapAt(root_, p), Fresh)
    IN  /\ here.st = "returned" =>
              /\ WrapsFirst(here.set, ef.set, ea.set)
              /\ there.st = "returned" /\ Shape(ef.set) # Shape(ea.set) =>
                    Shape(here.set) # Shape(there.set)
        /\ /\ result.st = "returned"
           /\ swapped.st = "returned"
           /\ Shape(ef.set) # Shape(ea.set)
           => Shape(result.set) # Shape(swapped.set)

\* C18: in both modes Application(f, a) converts to a term of exactly two
\* elements, a one-element set wrapping the encoding of f and the encoding
\* of a itself, also when the two encodings are equal; and when they differ,
\* Application(f, a) and Application(a, f) convert to different terms as
\* unordered nested sets.
C18_ApplicationOrdered ==
    \A p \in Applications(root_) :
        /\ dbj.st # "none" =>
              Distinguishes(convert_subset_dbj, OperandDbj, convert_dbj, dbj, p)
        /\ slc.st # "none" =>
              Distinguishes(convert_subset, Operand, convert, slc, p)

\* \x.\y.x y, converted in both modes: {{1}, 2} is not {{2}, 1}.
C18_Witness ==
    /\ root_ = Definition("x", Definition("y", Application(Atomic("x"), Atomic("y"))))
    /\ dbj.st = "returned"
    /\ slc.st = "returned"
====
